---- MODULE Spec2Model ----
(***************************************************************************)
(* A model of the image I/O layer (examples/image_io.cpp) and of the       *)
(* exposure estimator (autoexposure) of oidn.                              *)
(*                                                                         *)
(* Files are sequences of bytes (0..255).  A float is a dyadic rational    *)
(* m * 2^e (m odd or zero), or an infinity, a quiet NaN, or the content of *)
(* memory that was never written ("uninit"); its four bytes on disk are    *)
(* its IEEE-754 binary32 encoding, least significant byte first.  The      *)
(* build modelled is the one without HAS_OPEN_EXR.                         *)
(***************************************************************************)
EXTENDS Integers, Sequences, FiniteSets, TLC

VARIABLES
  disk,      \* file name -> the bytes of the file, or NoFile
  writable,  \* whether files of the medium can be opened for writing
  call,      \* the last call of the image I/O interface and its arguments
  ret,       \* how that call ended: what it threw or returned
  io,        \* what the call's stream did: opened, output operations done and asked
  input,     \* autoexposure: the Data2D image being reduced
  tasks,     \* autoexposure: the sub-ranges of the reduction, in row order
  visits,    \* autoexposure: row -> how many times a body has reduced it
  result,    \* autoexposure: the value returned, once the reduction is done
  pc         \* autoexposure: "idle", "reduce" or "done"

vars == <<disk, writable, call, ret, io, input, tasks, visits, result, pc>>
ioVars == <<disk, writable, call, ret, io>>
aeVars == <<input, tasks, visits, result, pc>>

\* ------------------------------------------------------------------ bounds

\* Largest height and width of a tensor handed to a save function.
MaxH == 2
MaxW == 2

\* ------------------------------------------------------------------ bytes

Ascii ==
  ("P" :> 80) @@ ("F" :> 70) @@ ("f" :> 102) @@ ("X" :> 88) @@ ("M" :> 77) @@
  ("a" :> 97) @@ ("b" :> 98) @@ ("k" :> 107) @@ ("m" :> 109) @@ ("n" :> 110) @@
  ("o" :> 111) @@ ("e" :> 101) @@ ("p" :> 112) @@ ("t" :> 116) @@ ("x" :> 120) @@
  ("y" :> 121) @@ ("z" :> 122) @@
  ("0" :> 48) @@ ("1" :> 49) @@ ("2" :> 50) @@ ("3" :> 51) @@ ("4" :> 52) @@
  ("5" :> 53) @@ ("6" :> 54) @@ ("7" :> 55) @@ ("8" :> 56) @@ ("9" :> 57) @@
  ("-" :> 45) @@ ("+" :> 43) @@ ("." :> 46) @@ (" " :> 32) @@ ("\n" :> 10)

\* The bytes of a text given as a sequence of one-character strings.
S(chars) == [i \in 1..Len(chars) |-> Ascii[chars[i]]]

RECURSIVE Concat(_)
Concat(chunks) ==
  IF chunks = <<>> THEN <<>> ELSE Head(chunks) \o Concat(Tail(chunks))

IsSpace(b) == b \in {9, 10, 11, 12, 13, 32}
IsDigit(b) == b \in 48..57

Abs(n) == IF n < 0 THEN -n ELSE n

\* Number of binary digits of a > 0.
RECURSIVE BitLen(_)
BitLen(a) == IF a <= 0 THEN 0 ELSE 1 + BitLen(a \div 2)

\* ------------------------------------------------------------------ float

NaN == [cls |-> "nan", m |-> 0, e |-> 0]
Inf(sign) == [cls |-> "inf", m |-> sign, e |-> 0]
Uninit == [cls |-> "uninit", m |-> 0, e |-> 0]

\* The float of value m * 2^e, normalised (m odd, or m = 0 and e = 0).
RECURSIVE Fin(_, _)
Fin(m, e) ==
  IF m = 0 THEN [cls |-> "fin", m |-> 0, e |-> 0]
  ELSE IF m % 2 = 0 THEN Fin(m \div 2, e + 1)
  ELSE [cls |-> "fin", m |-> m, e |-> e]

\* x * y of two floats, exact on the finite values of the model.  A value
\* computed from memory that was never written is itself indeterminate.
FMul(x, y) ==
  IF x.cls = "uninit" \/ y.cls = "uninit" THEN Uninit
  ELSE IF x.cls = "nan" \/ y.cls = "nan" THEN NaN
  ELSE IF x.cls = "inf" \/ y.cls = "inf" THEN
    IF x.m = 0 \/ y.m = 0 THEN NaN
    ELSE Inf(IF (x.m < 0) = (y.m < 0) THEN 1 ELSE -1)
  ELSE Fin(x.m * y.m, x.e + y.e)

\* fabs(x)
FAbs(x) == IF x.cls \in {"fin", "inf"} THEN [x EXCEPT !.m = Abs(x.m)] ELSE x

\* x >= 0.f (false of a NaN)
FGeZero(x) == x.cls \in {"fin", "inf"} /\ x.m >= 0

\* The four bytes of a float in memory (binary32, little-endian).
FloatBytes(x) ==
  LET Pack(sg, E, mant) ==
        << mant % 256, (mant \div 256) % 256,
           (E % 2) * 128 + (mant \div 65536), sg * 128 + (E \div 2) >>
  IN CASE x.cls = "nan" -> Pack(0, 255, 2^22)
       [] x.cls = "inf" -> Pack(IF x.m < 0 THEN 1 ELSE 0, 255, 0)
       [] x.cls = "fin" /\ x.m = 0 -> Pack(0, 0, 0)
       [] x.cls = "fin" /\ x.m # 0 ->
            LET a == Abs(x.m)
                p == BitLen(a) - 1
                E == x.e + p + 127
                sg == IF x.m < 0 THEN 1 ELSE 0
            IN IF E >= 255 THEN Pack(sg, 255, 0)
               ELSE IF E >= 1 THEN Pack(sg, E, (a - 2^p) * 2^(23 - p))
               ELSE IF x.e + 149 >= 0 THEN Pack(sg, 0, a * 2^(x.e + 149))
               ELSE Pack(sg, 0, 0)
       [] OTHER -> Pack(0, 255, 2^22 + 1)

\* The float held by four bytes read into memory.
BytesFloat(b) ==
  LET sg == b[4] \div 128
      E == (b[4] % 128) * 2 + (b[3] \div 128)
      mant == (b[3] % 128) * 65536 + b[2] * 256 + b[1]
      sign == IF sg = 1 THEN -1 ELSE 1
  IN IF E = 255 THEN (IF mant = 0 THEN Inf(sign) ELSE NaN)
     ELSE IF E = 0 THEN Fin(sign * mant, -149)
     ELSE Fin(sign * (2^23 + mant), E - 150)

\* ------------------------------------------------------------------ text

\* operator<< of an int: its decimal digits, with a leading '-' when negative.
RECURSIVE Digits(_)
Digits(n) ==
  IF n < 10 THEN <<48 + n>> ELSE Append(Digits(n \div 10), 48 + (n % 10))

IntToText(n) == IF n < 0 THEN <<45>> \o Digits(-n) ELSE Digits(n)

\* First position >= p of bytes b that holds no white space (Len(b)+1 at the end).
RECURSIVE SkipWs(_, _)
SkipWs(b, p) ==
  IF p <= Len(b) /\ IsSpace(b[p]) THEN SkipWs(b, p + 1) ELSE p

\* First position >= p that holds white space (Len(b)+1 at the end).
RECURSIVE TokenEnd(_, _)
TokenEnd(b, p) ==
  IF p <= Len(b) /\ ~IsSpace(b[p]) THEN TokenEnd(b, p + 1) ELSE p

\* First position >= p that holds no digit.
RECURSIVE DigitsEnd(_, _)
DigitsEnd(b, p) ==
  IF p <= Len(b) /\ IsDigit(b[p]) THEN DigitsEnd(b, p + 1) ELSE p

\* The number written by the digits b[p..q-1].
RECURSIVE DigitsValue(_, _, _)
DigitsValue(b, p, q) ==
  IF q <= p THEN 0 ELSE DigitsValue(b, p, q - 1) * 10 + (b[q - 1] - 48)

\* A stream over the bytes b is [pos, fail]: the next byte to read and failbit.
\* Every extraction on a failed stream does nothing.

\* file >> id (std::string): skips white space, takes the bytes up to the next
\* white space; extracting nothing sets failbit.
ReadString(b, st) ==
  IF st.fail THEN [st |-> st, val |-> <<>>]
  ELSE LET p == SkipWs(b, st.pos)
           q == TokenEnd(b, p)
       IN [st |-> [pos |-> q, fail |-> (q = p)], val |-> SubSeq(b, p, q - 1)]

\* Position after an optional sign at p.
AfterSign(b, p) == IF p <= Len(b) /\ b[p] \in {43, 45} THEN p + 1 ELSE p

\* file >> W (int): skips white space, takes an optional sign and decimal
\* digits; no digit sets failbit (and stores 0).
ReadInt(b, st) ==
  IF st.fail THEN [st |-> st, val |-> 0]
  ELSE LET p == SkipWs(b, st.pos)
           d == AfterSign(b, p)
           q == DigitsEnd(b, d)
           neg == d > p /\ b[p] = 45
           v == DigitsValue(b, d, q)
       IN IF q = d THEN [st |-> [pos |-> q, fail |-> TRUE], val |-> 0]
          ELSE [st |-> [pos |-> q, fail |-> FALSE], val |-> IF neg THEN -v ELSE v]

\* The float nearest below digits/10^k in magnitude, exact when digits/10^k
\* is a dyadic rational (as "1.0", "0.5", "2", "0.25" are).
DecimalFloat(sign, digits, k) ==
  IF digits % (5^k) = 0 THEN Fin(sign * (digits \div (5^k)), -k)
  ELSE Fin(sign * ((digits * 4096) \div (10^k)), -12)

\* file >> scale (float): skips white space, takes an optional sign, digits
\* and an optional '.' with more digits; no digit at all sets failbit.
ReadFloat(b, st) ==
  IF st.fail THEN [st |-> st, val |-> Uninit]
  ELSE LET p == SkipWs(b, st.pos)
           d == AfterSign(b, p)
           q == DigitsEnd(b, d)
           hasDot == q <= Len(b) /\ b[q] = 46
           f == IF hasDot THEN q + 1 ELSE q
           r == IF hasDot THEN DigitsEnd(b, f) ELSE q
           sign == IF d > p /\ b[p] = 45 THEN -1 ELSE 1
           nd == (q - d) + (r - f)
           digits == DigitsValue(b, d, q) * 10^(r - f) + DigitsValue(b, f, r)
       IN IF nd = 0 THEN [st |-> [pos |-> r, fail |-> TRUE], val |-> Fin(0, 0)]
          ELSE [st |-> [pos |-> r, fail |-> FALSE],
                val |-> DecimalFloat(sign, digits, r - f)]

\* file.get(): takes one byte; at the end of the file sets failbit.
Get(b, st) ==
  IF st.fail THEN st
  ELSE IF st.pos > Len(b) THEN [st EXCEPT !.fail = TRUE]
  ELSE [st EXCEPT !.pos = st.pos + 1]

\* file.read((char*)&x, sizeof(float)): with fewer than four bytes left the
\* stream fails and x is not a sample of the file.
ReadFloatBytes(b, st) ==
  IF st.fail THEN [st |-> st, val |-> Uninit]
  ELSE IF st.pos + 3 > Len(b)
    THEN [st |-> [pos |-> Len(b) + 1, fail |-> TRUE], val |-> Uninit]
  ELSE [st |-> [pos |-> st.pos + 4, fail |-> FALSE],
        val |-> BytesFloat(SubSeq(b, st.pos, st.pos + 3))]

\* ------------------------------------------------------------------ tensor

NoTensor == [dims |-> <<>>, format |-> "", data |-> <<>>]

Hwc == "hwc"

\* Tensor(dims, format): a buffer of dims[0]*dims[1]*dims[2] floats that the
\* constructor does not write; a negative element count cannot be allocated.
TensorSize(dims) == dims[1] * dims[2] * dims[3]
Tensor(dims, format) ==
  [dims |-> dims, format |-> format,
   data |-> [i \in 1..TensorSize(dims) |-> Uninit]]

\* How a call ends: an exception of a type with its message, or a return.
Throw(type, what) == [status |-> type, what |-> what, image |-> NoTensor]
Return(image) == [status |-> "ok", what |-> "", image |-> image]

NoFile == <<-1>>

\* ------------------------------------------------------------------ PFM

\* The pixel loops without the row flip: sample (h, w, c) stored at (h*W + w)*C + c.
RECURSIVE ReadPixelsNoFlip(_, _, _, _, _, _, _, _)
ReadPixelsNoFlip(b, st, data, k, H, W, C, scale) ==
  IF H <= 0 \/ W <= 0 \/ k >= H * W * C THEN [st |-> st, data |-> data]
  ELSE LET x == ReadFloatBytes(b, st)
       IN ReadPixelsNoFlip(b, x.st, [data EXCEPT ![k + 1] = FMul(x.val, scale)],
                           k + 1, H, W, C, scale)

\* The pixel loops of loadImagePFM from the k-th sample on: the samples of the
\* body are read in the order (h, w, c) and sample (h, w, c) is stored, times
\* scale, at ((H-1-h)*W + w)*C + c.
RECURSIVE ReadPixels(_, _, _, _, _, _, _, _)
ReadPixels(b, st, data, k, H, W, C, scale) ==
  IF H <= 0 \/ W <= 0 \/ k >= H * W * C THEN [st |-> st, data |-> data]
  ELSE LET h == k \div (W * C)
           w == (k \div C) % W
           c == k % C
           x == ReadFloatBytes(b, st)
           idx == ((H - 1 - h) * W + w) * C + c
       IN ReadPixels(b, x.st, [data EXCEPT ![idx + 1] = FMul(x.val, scale)],
                     k + 1, H, W, C, scale)

\* loadImagePFM on a file that was opened, with bytes b.
DecodePFM(b) ==
  LET s0 == [pos |-> 1, fail |-> FALSE]
      id == ReadString(b, s0)
      C == IF id.val = S(<<"P", "F">>) THEN 3
           ELSE IF id.val = S(<<"P", "f">>) THEN 1 ELSE 0
      rW == ReadInt(b, id.st)
      rH == ReadInt(b, rW.st)
      rS == ReadFloat(b, rH.st)
      s1 == Get(b, rS.st)
      W == rW.val
      H == rH.val
      scale == FAbs(rS.val)
  IN IF C = 0 THEN Throw("runtime_error", "invalid PFM image")
     ELSE IF s1.fail THEN Throw("runtime_error", "invalid PFM image")
     ELSE IF FGeZero(rS.val)
       THEN Throw("runtime_error", "big-endian PFM images are not supported")
     ELSE IF TensorSize(<<H, W, C>>) < 0 THEN Throw("bad_alloc", "Tensor")
     ELSE LET image == Tensor(<<H, W, C>>, Hwc)
              px == ReadPixels(b, s1, image.data, 0, H, W, C, scale)
          IN IF px.st.fail THEN Throw("runtime_error", "invalid PFM image")
             ELSE Return([image EXCEPT !.data = px.data])

\* loadImagePFM(filename) on the files of d.
LoadPFM(d, filename) ==
  IF d[filename] = NoFile THEN Throw("runtime_error", "cannot open file")
  ELSE DecodePFM(d[filename])

\* image.ndims() != 3 || image.dims[2] != 3 || image.format != "hwc"
NotThreeChannelHwc(image) ==
  \/ Len(image.dims) # 3
  \/ image.dims[3] # 3
  \/ image.format # Hwc

\* The pixel writes without the row flip: disk sample k is image[k].
RECURSIVE PFMPixelsNoFlip(_, _)
PFMPixelsNoFlip(image, k) ==
  IF image.dims[1] <= 0 \/ image.dims[2] <= 0
     \/ k >= image.dims[1] * image.dims[2] * 3 THEN <<>>
  ELSE <<FloatBytes(image.data[k + 1])>> \o PFMPixelsNoFlip(image, k + 1)

\* The pixel writes of saveImagePFM from the k-th on, one chunk per
\* file.write: disk sample (h, w, c) is image[((H-1-h)*W + w)*C + c].
RECURSIVE PFMPixels(_, _)
PFMPixels(image, k) ==
  LET H == image.dims[1]
      W == image.dims[2]
      C == image.dims[3]
  IN IF H <= 0 \/ W <= 0 \/ k >= H * W * 3 THEN <<>>
     ELSE LET h == k \div (W * 3)
              w == (k \div 3) % W
              c == k % 3
              x == image.data[((H - 1 - h) * W + w) * C + c + 1]
          IN <<FloatBytes(x)>> \o PFMPixels(image, k + 1)

\* What saveImagePFM hands to its stream, one chunk per output operation.
PFMChunks(image) ==
  << S(<<"P", "F">>), <<10>>,
     IntToText(image.dims[2]), <<32>>, IntToText(image.dims[1]), <<10>>,
     S(<<"-", "1", ".", "0">>), <<10>> >> \o PFMPixels(image, 0)

\* ------------------------------------------------------------------ PPM

IntMin == -2147483647 - 1
IntMax == 2147483647

\* Largest r in lo..hi with r*r <= v (lo*lo <= v assumed).
RECURSIVE ISqrt(_, _, _)
ISqrt(v, lo, hi) ==
  IF lo >= hi THEN lo
  ELSE LET mid == (lo + hi + 1) \div 2
       IN IF mid * mid <= v THEN ISqrt(v, mid, hi) ELSE ISqrt(v, lo, mid - 1)

\* Fixed point with ten fractional bits.
FixOne == 2^10
FixSqrt(v) == ISqrt(v * FixOne, 0, 2^15)
FixMul(a, b) == (a * b) \div FixOne

\* The float x (finite, x >= 0, x < 2^51) in fixed point, saturated at 2^10.
ToFix(x) ==
  IF x.e + BitLen(x.m) - 1 >= 10 THEN FixOne * FixOne
  ELSE IF x.e + 10 >= 0 THEN x.m * 2^(x.e + 10)
  ELSE IF x.e + 10 < -30 THEN 0
  ELSE x.m \div 2^(-(x.e + 10))

\* pow(x, 1.f/2.2f) of a finite x >= 0 in fixed point, the exponent taken as
\* 1/4 + 1/8 + 1/16 + 1/64 and every root rounded down; exact at 0 and 1.
FixPowGamma(v) ==
  LET s2 == FixSqrt(FixSqrt(v))
      s3 == FixSqrt(s2)
      s4 == FixSqrt(s3)
      s6 == FixSqrt(FixSqrt(s4))
  IN FixMul(FixMul(FixMul(s2, s3), s4), s6)

\* How the build converts a float outside the range of int: x86 yields the
\* "integer indefinite" value INT_MIN, a saturating target (ARM) yields 0 for
\* a NaN and the nearest int otherwise.  The C++ standard leaves it undefined.
CvtModes == {"x86", "saturating"}

\* int(pow(x, 1.f/2.2f) * 255.f)
GammaInt(x, cvt) ==
  LET nan == IF cvt = "x86" THEN IntMin ELSE 0
      over == IF cvt = "x86" THEN IntMin ELSE IntMax
  IN CASE x.cls \in {"nan", "uninit"} -> nan
       [] x.cls = "inf" -> over
       [] x.cls = "fin" /\ x.m < 0 -> nan
       [] x.cls = "fin" /\ x.m >= 0 /\ x.e + BitLen(x.m) - 1 >= 51 -> over
       [] OTHER -> (FixPowGamma(ToFix(x)) * 255) \div FixOne

Min(a, b) == IF a < b THEN a ELSE b
Max(a, b) == IF a > b THEN a ELSE b

\* std::min(std::max(int(x * 255.f), 0), 255), written as one byte.
GammaByte(x, cvt) == Min(Max(GammaInt(x, cvt), 0), 255)

\* The pixel writes of saveImagePPM from the k-th on, one chunk per file.put:
\* sample k = i*3 + c of the file is image[i*C + c], no row flip.
RECURSIVE PPMPixels(_, _, _)
PPMPixels(image, k, cvt) ==
  LET H == image.dims[1]
      W == image.dims[2]
      C == image.dims[3]
  IN IF k >= W * H * 3 THEN <<>>
     ELSE LET i == k \div 3
              c == k % 3
          IN << <<GammaByte(image.data[i * C + c + 1], cvt)>> >>
               \o PPMPixels(image, k + 1, cvt)

\* What saveImagePPM hands to its stream, one chunk per output operation.
PPMChunks(image, cvt) ==
  << S(<<"P", "6">>), <<10>>,
     IntToText(image.dims[2]), <<32>>, IntToText(image.dims[1]), <<10>>,
     S(<<"2", "5", "5">>), <<10>> >> \o PPMPixels(image, 0, cvt)

\* ------------------------------------------------------------------ inputs

\* File names given to the calls.
APfm == S(<<"a", ".", "p", "f", "m">>)
XYPfm == S(<<"x", ".", "y", ".", "p", "f", "m">>)
NoExt == S(<<"n", "o", "e", "x", "t">>)
FileNames ==
  { APfm, XYPfm,
    S(<<"a", ".", "p", "f", "m", ".", "b", "a", "k">>),
    S(<<"a", ".", "x", "y", "z">>),
    S(<<"a", ".", "P", "F", "M">>),
    S(<<"a", ".", "p", "p", "m">>),
    S(<<"a", ".">>),
    NoExt }

\* The names given to the calls where files are written: a.pfm is the one
\* file written; the other names are refused by the dispatch.
LoadNames == { APfm, NoExt }
SaveNames == { NoExt, S(<<"a", ".", "x", "y", "z">>), S(<<"a", ".", "P", "F", "M">>) }

\* The tensor of a shape whose i-th element is (start + i - 1) / 4.
Ramp(dims, format, start) ==
  [dims |-> dims, format |-> format,
   data |-> [i \in 1..TensorSize(dims) |-> Fin(start + i - 1, -2)]]

\* A 1 x 1 x 3 tensor of three given floats.
Pixel(r, g, b) == [dims |-> <<1, 1, 3>>, format |-> Hwc, data |-> <<r, g, b>>]

\* Tensors given to the save functions: every shape up to MaxH x MaxW of
\* three channels with elements -1/4, 0, 1/4, ... (all different), pixels of
\* special and of very large values, and tensors that are not 3-channel hwc.
SaveTensors ==
  { Ramp(<<H, W, 3>>, Hwc, -1) : H \in 1..MaxH, W \in 1..MaxW }
  \cup { Ramp(<<0, 1, 3>>, Hwc, -1), Ramp(<<1, 0, 3>>, Hwc, -1) }
  \cup { Pixel(NaN, Inf(1), Inf(-1)),
         Pixel(Fin(1, 60), Fin(-1, 60), Fin(1, -140)) }
  \cup { Ramp(<<1, 1, 1>>, Hwc, 0), Ramp(<<1, 1, 3>>, "chw", 0),
         [dims |-> <<1, 3>>, format |-> Hwc, data |-> <<Fin(0, 0), Fin(1, 0), Fin(2, 0)>>] }

\* Files found on a read-only medium: a header of tokens, each ended by a
\* newline, and a body of samples 1/2, 1, 3/2, ..., cut short by some bytes.
MaxExtDim == 2
Magics == { S(<<"P", "F">>), S(<<"P", "f">>), S(<<"P", "X">>), S(<<"P", "6">>), <<>> }
DimTokens == { IntToText(n) : n \in -1..MaxExtDim } \cup { S(<<"x">>) }
ScaleTokens ==
  { S(<<"-", "1", ".", "0">>), S(<<"-", "2">>), S(<<"-", "0", ".", "5">>),
    S(<<"0">>), S(<<"-", "0", ".", "0">>), S(<<"1", ".", "0">>), S(<<"x">>) }
ExtSamples == MaxExtDim * MaxExtDim * 3 + 1
ExtBody == Concat([k \in 1..ExtSamples |-> FloatBytes(Fin(k, -1))])
ExtHeader(magic, wtok, htok, stok) ==
  magic \o <<10>> \o wtok \o <<32>> \o htok \o <<10>> \o stok \o <<10>>
ExtFile(magic, wtok, htok, stok, n) ==
  ExtHeader(magic, wtok, htok, stok) \o SubSeq(ExtBody, 1, n)
\* Body lengths around the k bytes a header asks for.
Cuts(k) == {0, k - 4, k - 1, k, k + 4} \cap 0..(4 * ExtSamples)
Channels(magic) == IF magic = S(<<"P", "F">>) THEN 3 ELSE 1
ExternalFiles ==
  UNION { { ExtFile(magic, IntToText(w), IntToText(h), stok, n) :
              magic \in { S(<<"P", "F">>), S(<<"P", "f">>) }, stok \in ScaleTokens,
              n \in Cuts(4 * Abs(w * h) * 3) \cup Cuts(4 * Abs(w * h)) } :
          w \in -1..MaxExtDim, h \in -1..MaxExtDim }
  \cup { ExtFile(magic, wtok, htok, S(<<"-", "1", ".", "0">>), 12) :
           magic \in Magics, wtok \in DimTokens, htok \in DimTokens }
  \cup { SubSeq(ExtHeader(S(<<"P", "F">>), IntToText(w), IntToText(0), S(<<"-", "1">>)), 1, n) :
           w \in 0..1, n \in 0..10 }

\* Well-formed files of either channel count and of several scales.
GoodFiles ==
  { ExtHeader(magic, IntToText(W), IntToText(H), stok)
      \o SubSeq(ExtBody, 1, 4 * W * H * Channels(magic)) :
      magic \in { S(<<"P", "F">>), S(<<"P", "f">>) },
      W \in 1..MaxExtDim, H \in 1..MaxExtDim,
      stok \in { S(<<"-", "1", ".", "0">>), S(<<"-", "2">>), S(<<"-", "0", ".", "5">>) } }

\* ------------------------------------------------------------------ save

\* The effect of a call: the files afterwards, how the call ended, and what
\* its stream did (opened; n of the total output operations took effect).
Effect(d, r, opened, n, total) ==
  [disk |-> d, ret |-> r,
   io |-> [opened |-> opened, done |-> n, total |-> total]]

\* An std::ofstream opened on filename, then given the chunks: the file is
\* created empty, the first n output operations succeed, the stream is bad
\* from then on and ignores the rest (n = Len(chunks): no failure).  Nothing
\* checks the stream afterwards.  The set of the effects, one for every n.
WriteFile(d, w, filename, chunks) ==
  IF ~w THEN { Effect(d, Throw("runtime_error", "cannot open file"), FALSE, 0, 0) }
  ELSE { Effect([d EXCEPT ![filename] = Concat(SubSeq(chunks, 1, n))],
                Return(NoTensor), TRUE, n, Len(chunks)) : n \in 0..Len(chunks) }

\* The output operations of the saves of the tensors above, computed once.
Savable == { t \in SaveTensors : ~NotThreeChannelHwc(t) }
PFMChunksOf == [t \in Savable |-> PFMChunks(t)]
PPMChunksOf == [t \in Savable |-> [cvt \in CvtModes |-> PPMChunks(t, cvt)]]

\* saveImagePFM(image, filename): its possible effects.
SavePFM(d, w, image, filename) ==
  IF NotThreeChannelHwc(image)
    THEN { Effect(d, Throw("invalid_argument", "image must have 3 channels"),
                  FALSE, 0, 0) }
  ELSE WriteFile(d, w, filename,
                 IF image \in Savable THEN PFMChunksOf[image] ELSE PFMChunks(image))

\* saveImagePPM(image, filename): its possible effects on a build that
\* converts floats to int as cvt says.
SavePPM(d, w, image, filename, cvt) ==
  IF NotThreeChannelHwc(image)
    THEN { Effect(d, Throw("invalid_argument", "image must have 3 channels"),
                  FALSE, 0, 0) }
  ELSE WriteFile(d, w, filename,
                 IF image \in Savable THEN PPMChunksOf[image][cvt]
                 ELSE PPMChunks(image, cvt))

\* ------------------------------------------------------------------ dispatch

\* filename.rfind('.'): the last position of a '.', 0 when there is none.
RECURSIVE RFind(_, _)
RFind(filename, i) ==
  IF i = 0 THEN 0
  ELSE IF filename[i] = 46 THEN i ELSE RFind(filename, i - 1)

\* The extension taken after the first '.' (find instead of rfind).
fileExtensionOfFirstDot(filename) ==
  LET dots == { i \in 1..Len(filename) : filename[i] = 46 }
      index == IF dots = {} THEN 0 ELSE CHOOSE i \in dots : \A j \in dots : i <= j
  IN IF index = 0 THEN [ok |-> FALSE, ext |-> <<>>]
     ELSE [ok |-> TRUE, ext |-> SubSeq(filename, index + 1, Len(filename))]

\* fileExtensionOf(filename): [ok, ext]; not ok is std::invalid_argument.
fileExtensionOf(filename) ==
  LET index == RFind(filename, Len(filename))
  IN IF index = 0 THEN [ok |-> FALSE, ext |-> <<>>]
     ELSE [ok |-> TRUE, ext |-> SubSeq(filename, index + 1, Len(filename))]

Pfm == S(<<"p", "f", "m">>)

\* loadImage(filename)
LoadImage(d, filename) ==
  LET format == fileExtensionOf(filename)
  IN IF ~format.ok THEN Throw("invalid_argument", "filename has no extension")
     ELSE IF format.ext = Pfm THEN LoadPFM(d, filename)
     ELSE Throw("invalid_argument", "image format is not supported")

\* saveImage(image, filename)
SaveImage(d, w, image, filename, cvt) ==
  LET format == fileExtensionOf(filename)
  IN IF ~format.ok
       THEN { Effect(d, Throw("invalid_argument", "filename has no extension"),
                     FALSE, 0, 0) }
     ELSE IF format.ext = Pfm THEN SavePPM(d, w, image, filename, cvt)
     ELSE { Effect(d, Throw("invalid_argument", "image format is not supported"),
                   FALSE, 0, 0) }

NoCall == [op |-> "none", filename |-> <<>>, image |-> NoTensor]
NoIo == [opened |-> FALSE, done |-> 0, total |-> 0]

\* ------------------------------------------------------------------ actions

AeIdle ==
  /\ input = <<>>
  /\ tasks = <<>>
  /\ visits = <<>>
  /\ result = 0
  /\ pc = "idle"

NoCallYet ==
  /\ call = NoCall
  /\ ret = Return(NoTensor)
  /\ io = NoIo

\* A medium holding the bytes b under the name a.pfm and nothing else.
Holding(b) == [f \in FileNames |-> IF f = APfm THEN b ELSE NoFile]

\* A writable medium without files, or a read-only medium that is empty or
\* holds one well-formed file.
Init ==
  /\ \/ writable = TRUE /\ disk = Holding(NoFile)
     \/ writable = FALSE /\ \E b \in GoodFiles \cup {NoFile} : disk = Holding(b)
  /\ NoCallYet
  /\ AeIdle

\* A read-only medium holding one file, well-formed or not.
InitLoad ==
  /\ writable = FALSE
  /\ \E b \in ExternalFiles : disk = Holding(b)
  /\ NoCallYet
  /\ AeIdle

Apply(op, image, filename, eff) ==
  /\ call' = [op |-> op, filename |-> filename, image |-> image]
  /\ disk' = eff.disk
  /\ ret' = eff.ret
  /\ io' = eff.io
  /\ UNCHANGED <<writable, aeVars>>

loadImagePFM(filename) ==
  Apply("loadImagePFM", NoTensor, filename,
        Effect(disk, LoadPFM(disk, filename), disk[filename] # NoFile, 0, 0))

loadImage(filename) ==
  LET r == LoadImage(disk, filename)
  IN Apply("loadImage", NoTensor, filename,
           Effect(disk, r, r.status # "invalid_argument" /\ disk[filename] # NoFile,
                  0, 0))

saveImagePFM(image, filename) ==
  \E eff \in SavePFM(disk, writable, image, filename) :
    Apply("saveImagePFM", image, filename, eff)

saveImagePPM(image, filename) ==
  \E eff \in UNION { SavePPM(disk, writable, image, filename, cvt) : cvt \in CvtModes } :
    Apply("saveImagePPM", image, filename, eff)

saveImage(image, filename) ==
  \E eff \in UNION { SaveImage(disk, writable, image, filename, cvt) : cvt \in CvtModes } :
    Apply("saveImage", image, filename, eff)

Next ==
  \/ \E f \in LoadNames : loadImagePFM(f)
  \/ \E f \in LoadNames : loadImage(f)
  \/ \E t \in SaveTensors : saveImagePFM(t, APfm)
  \/ \E t \in SaveTensors : saveImagePPM(t, APfm)
  \/ \E t \in SaveTensors : saveImage(t, APfm)
  \/ \E f \in SaveNames : saveImage(Ramp(<<1, 1, 3>>, Hwc, -1), f)

Spec == Init /\ [][Next]_vars

NextLoad ==
  \/ \E f \in FileNames : loadImagePFM(f)
  \/ \E f \in FileNames : loadImage(f)

SpecLoad == InitLoad /\ [][NextLoad]_vars

\* ------------------------------------------------------------------ autoexposure

\* Numbers of the exposure estimator.  A colour channel is c * 2^e with c an
\* integer, the three channels of a pixel sharing e.  A luminance is
\* n * 2^e / 10^6.  A logarithm is an integer count of sixteenths.  The result
\* is q * 2^k / 2^20.  Sums are exact: the claims hold up to the
\* reassociation of float additions.

MaxRows == 3
MaxCols == 2
NumWorkers == 2

\* Pixels: black; two below the threshold (2^-24 and negative); white twice;
\* 2^-23, just above the threshold; pure red; a bright grey.
Palette ==
  << [c |-> <<0, 0, 0>>, e |-> 0],
     [c |-> <<1, 1, 1>>, e |-> -24],
     [c |-> <<1, 1, 1>>, e |-> 0],
     [c |-> <<1, 1, 1>>, e |-> 0],
     [c |-> <<1, 1, 1>>, e |-> -23],
     [c |-> <<1, 0, 0>>, e |-> 0],
     [c |-> <<-1, -1, -1>>, e |-> 0],
     [c |-> <<3, 3, 3>>, e |-> 1] >>

\* input.get(h, w): row h of an image starts at the palette entry rows[h+1]
\* and takes the following entries column by column.
GetPixel(img, h, w) == Palette[((img.rows[h + 1] + w - 1) % Len(Palette)) + 1]

\* luminance(r, g, b) = 0.212671f * r + 0.715160f * g + 0.072169f * b
luminance(p) ==
  [n |-> 212671 * p.c[1] + 715160 * p.c[2] + 72169 * p.c[3], e |-> p.e]

\* L > 1e-7f, that is n * 2^e * 10 > 1
AboveEps(L) ==
  IF L.e >= 0 THEN L.n >= 1
  ELSE IF L.e < -27 THEN FALSE
  ELSE 10 * L.n > 2^(-L.e)

\* The j with 2^j <= n / 10^6 < 2^(j+1), searched from j upwards or downwards.
RECURSIVE ScaleUp(_, _)
ScaleUp(n, j) == IF n < 2000000 THEN [n |-> n, j |-> j] ELSE ScaleUp(n \div 2, j + 1)
RECURSIVE ScaleDown(_, _)
ScaleDown(n, j) == IF n >= 1000000 THEN [n |-> n, j |-> j] ELSE ScaleDown(n * 2, j - 1)

\* The bits sixteenths of log2(r) of a fixed-point r in [1, 2), most
\* significant first, by repeated squaring.
RECURSIVE LogBits(_, _)
LogBits(r, bits) ==
  IF bits = 0 THEN 0
  ELSE LET sq == FixMul(r, r)
       IN IF sq >= 2 * FixOne THEN 2^(bits - 1) + LogBits(sq \div 2, bits - 1)
          ELSE LogBits(sq, bits - 1)

\* std::log2(L) of a luminance L > 0, in sixteenths, rounded down.
Log2(L) ==
  LET s == IF L.n >= 1000000 THEN ScaleUp(L.n, 0) ELSE ScaleDown(L.n, 0)
      r == (s.n * FixOne) \div 1000000
  IN (s.j + L.e) * 16 + LogBits(r, 4)

Zero == <<0, 0>>

\* The inner loop of the body over the pixels w, w+1, ... of row h.
RECURSIVE RowBody(_, _, _, _)
RowBody(img, h, w, sum) ==
  IF w >= img.width THEN sum
  ELSE LET L == luminance(GetPixel(img, h, w))
       IN RowBody(img, h, w + 1,
                  IF AboveEps(L) THEN <<sum[1] + Log2(L), sum[2] + 1>> ELSE sum)

\* A reduction that keeps the count of its left operand only.
ReductionLeftCount(a, b) == <<a[1] + b[1], a[2]>>

\* The reduction: Sum(a.first + b.first, a.second + b.second)
Reduction(a, b) == <<a[1] + b[1], a[2] + b[2]>>

\* std::exp2(x) of sixteenths x: [q, k], the value q * 2^k / 2^10 with q in [1, 2).
Exp2(x) ==
  LET k == x \div 16
      f == x % 16
      r1 == FixSqrt(2 * FixOne)
      r2 == FixSqrt(r1)
      r3 == FixSqrt(r2)
      r4 == FixSqrt(r3)
      P(bit, r, acc) == IF (f \div bit) % 2 = 1 THEN FixMul(acc, r) ELSE acc
  IN [q |-> P(1, r4, P(2, r3, P(4, r2, P(8, r1, FixOne)))), k |-> k]

ResultOne == 2^20
Key == (18 * ResultOne) \div 100
One == [q |-> ResultOne, k |-> 0]

\* The exposure with the test made on sum.first instead of sum.second.
ExposureTestFirst(sum) ==
  IF sum[1] > 0
    THEN LET x == Exp2(sum[1] \div sum[2])
         IN [q |-> (Key * FixOne) \div x.q, k |-> -x.k]
  ELSE One

\* (sum.second > 0) ? (key / std::exp2(sum.first / float(sum.second))) : 1.f
Exposure(sum) ==
  IF sum[2] > 0
    THEN LET x == Exp2(sum[1] \div sum[2])
         IN [q |-> (Key * FixOne) \div x.q, k |-> -x.k]
  ELSE One

\* A sub-range [lo, hi) of rows: "new" (no body has run on it), "running" in
\* the worker owner with rows lo..h-1 reduced into sum, or "done" (owner 0).
\* parts counts the partial sums of bodies that the reduction merged into sum.
Task(lo, hi, h, sum, st, owner, parts) ==
  [lo |-> lo, hi |-> hi, h |-> h, sum |-> sum, st |-> st, owner |-> owner,
   parts |-> parts]

\* The palette entries at which the rows of the images start.
RowStarts == {1, 2, 3, 5, 7}
Images ==
  UNION { [height : {H}, width : 0..MaxCols, rows : [1..H -> RowStarts]] :
          H \in 0..MaxRows }

IoIdle ==
  /\ disk = <<>>
  /\ writable = FALSE
  /\ NoCallYet

\* autoexposure(input) is called: parallel_reduce gets the range [0, height).
InitAE ==
  /\ input \in Images
  /\ tasks = IF input.height > 0
               THEN <<Task(0, input.height, 0, Zero, "new", 0, 1)>> ELSE <<>>
  /\ visits = [h \in 0..(input.height - 1) |-> 0]
  /\ result = One
  /\ pc = "reduce"
  /\ IoIdle

Replace(seq, i, n, new) == SubSeq(seq, 1, i - 1) \o new \o SubSeq(seq, i + n, Len(seq))

Idle(w) == \A i \in 1..Len(tasks) : ~(tasks[i].st = "running" /\ tasks[i].owner = w)

\* blocked_range: a range no body has touched is split in two at row m.
Split(i, m) ==
  /\ pc = "reduce"
  /\ tasks[i].st = "new"
  /\ tasks[i].lo < m /\ m < tasks[i].hi
  /\ tasks' = Replace(tasks, i, 1,
                <<Task(tasks[i].lo, m, tasks[i].lo, Zero, "new", 0, 1),
                  Task(m, tasks[i].hi, m, Zero, "new", 0, 1)>>)
  /\ UNCHANGED <<input, visits, result, pc, ioVars>>

\* A worker takes a sub-range and runs the body on it from the identity.
Start(i, w) ==
  /\ pc = "reduce"
  /\ tasks[i].st = "new"
  /\ Idle(w)
  /\ tasks' = [tasks EXCEPT ![i] = Task(@.lo, @.hi, @.lo, Zero, "running", w, 1)]
  /\ UNCHANGED <<input, visits, result, pc, ioVars>>

\* A body that has finished a sub-range goes on with the next one to the
\* right, carrying its sum (the body is called with the value so far).
Continue(i, w) ==
  /\ pc = "reduce"
  /\ i < Len(tasks)
  /\ tasks[i].st = "done" /\ tasks[i + 1].st = "new"
  /\ Idle(w)
  /\ tasks' = Replace(tasks, i, 2,
                <<Task(tasks[i].lo, tasks[i + 1].hi, tasks[i + 1].lo,
                       tasks[i].sum, "running", w, tasks[i].parts)>>)
  /\ UNCHANGED <<input, visits, result, pc, ioVars>>

\* One iteration of the loop over h of the body: row h is reduced into the
\* body's own sum; h == r.end() ends the body.
Row(i) ==
  /\ pc = "reduce"
  /\ tasks[i].st = "running"
  /\ LET t == tasks[i]
         sum == RowBody(input, t.h, 0, t.sum)
     IN /\ tasks' = [tasks EXCEPT ![i] =
                       IF t.h + 1 = t.hi
                         THEN Task(t.lo, t.hi, t.hi, sum, "done", 0, t.parts)
                         ELSE Task(t.lo, t.hi, t.h + 1, sum, "running", t.owner, t.parts)]
        /\ visits' = [visits EXCEPT ![t.h] = @ + 1]
  /\ UNCHANGED <<input, result, pc, ioVars>>

\* Two finished neighbours are joined by the reduction, left operand first.
Join(i) ==
  /\ pc = "reduce"
  /\ i < Len(tasks)
  /\ tasks[i].st = "done" /\ tasks[i + 1].st = "done"
  /\ tasks' = Replace(tasks, i, 2,
                <<Task(tasks[i].lo, tasks[i + 1].hi, tasks[i + 1].hi,
                       Reduction(tasks[i].sum, tasks[i + 1].sum), "done", 0,
                       tasks[i].parts + tasks[i + 1].parts)>>)
  /\ UNCHANGED <<input, visits, result, pc, ioVars>>

\* parallel_reduce returns once one finished range is left (the identity for
\* an empty range); autoexposure returns the exposure of that sum.
autoexposure ==
  /\ pc = "reduce"
  /\ tasks = <<>> \/ (Len(tasks) = 1 /\ tasks[1].st = "done")
  /\ result' = Exposure(IF tasks = <<>> THEN Zero ELSE tasks[1].sum)
  /\ pc' = "done"
  /\ UNCHANGED <<input, tasks, visits, ioVars>>

NextAE ==
  \/ \E i \in 1..Len(tasks), m \in 1..MaxRows : Split(i, m)
  \/ \E i \in 1..Len(tasks), w \in 1..NumWorkers : Start(i, w)
  \/ \E i \in 1..Len(tasks), w \in 1..NumWorkers : Continue(i, w)
  \/ \E i \in 1..Len(tasks) : Row(i)
  \/ \E i \in 1..Len(tasks) : Join(i)
  \/ autoexposure

SpecAE == InitAE /\ [][NextAE]_vars

\* ------------------------------------------------------------------ properties

\* Position after the n-th newline found in the bytes b from position p on.
RECURSIVE AfterNewlines(_, _, _)
AfterNewlines(b, p, n) ==
  IF n = 0 \/ p > Len(b) THEN p
  ELSE AfterNewlines(b, p + 1, IF b[p] = 10 THEN n - 1 ELSE n)

\* The four bytes of the k-th sample (from 0) of the body of a file whose
\* header is three lines, and the scale its third line gives.
DiskSample(b, k) ==
  LET start == AfterNewlines(b, 1, 3) IN SubSeq(b, start + 4 * k, start + 4 * k + 3)
HeaderScale(b) == ReadFloat(b, [pos |-> AfterNewlines(b, 1, 2), fail |-> FALSE]).val

IsSave == call.op \in {"saveImagePFM", "saveImagePPM", "saveImage"}
IsLoad == call.op \in {"loadImagePFM", "loadImage"}
Complete == io.opened /\ io.done = io.total

\* C1: saveImage with a file name of extension "pfm" hands a 3-channel hwc
\* tensor to the PFM encoder: once all writes took effect the file is the PFM
\* encoding of the tensor (magic "PF", text header, raw float rows).
C1_SaveImageWritesPFM ==
  ( /\ call.op = "saveImage"
    /\ fileExtensionOf(call.filename) = [ok |-> TRUE, ext |-> Pfm]
    /\ ~NotThreeChannelHwc(call.image)
    /\ writable
    /\ io.done = io.total )
  => disk[call.filename] = Concat(PFMChunks(call.image))

\* C2: a 3-channel hwc tensor with H > 0 and W > 0 written by saveImagePFM and
\* read back by loadImagePFM from the same file is returned with the same
\* dims, the same format and the same element at every index.
C2_RoundTrip ==
  [][ ( /\ call.op = "saveImagePFM"
        /\ Complete
        /\ call.image.dims[1] > 0
        /\ call.image.dims[2] > 0
        /\ call'.op = "loadImagePFM"
        /\ call'.filename = call.filename )
      => ret' = Return(call.image) ]_vars

C2_Witness ==
  /\ call.op = "loadImagePFM"
  /\ writable
  /\ ret.status = "ok"
  /\ ret.image = Ramp(<<2, 2, 3>>, Hwc, -1)

\* The position of the last '.' of a file name, 0 when it has none.
LastDot(f) ==
  LET dots == { i \in 1..Len(f) : f[i] = 46 }
  IN IF dots = {} THEN 0 ELSE CHOOSE i \in dots : \A j \in dots : j <= i

\* C3: loadImage takes the bytes after the last '.' of the file name as the
\* extension, compared case-sensitively: "pfm" gives exactly what
\* loadImagePFM gives (its result or its error), any other extension and a
\* name without '.' give std::invalid_argument and no tensor.
C3_LoadDispatch ==
  call.op = "loadImage" =>
    LET f == call.filename
        last == LastDot(f)
    IN IF last > 0 /\ SubSeq(f, last + 1, Len(f)) = <<112, 102, 109>>
         THEN ret = LoadPFM(disk, f)
       ELSE ret.status = "invalid_argument" /\ ret.image = NoTensor

C3_Witness ==
  /\ call.op = "loadImage"
  /\ call.filename = XYPfm
  /\ ret.status = "runtime_error"
  /\ ret.what = "cannot open file"

\* The white-space separated tokens of a PFM header and the number of bytes
\* that follow the one separator after the fourth.
HeaderTokens(b) ==
  LET t1 == ReadString(b, [pos |-> 1, fail |-> FALSE])
      t2 == ReadString(b, t1.st)
      t3 == ReadString(b, t2.st)
      t4 == ReadString(b, t3.st)
  IN [magic |-> t1.val, w |-> t2.val, h |-> t3.val, scale |-> t4.val,
      body |-> Len(b) - t4.st.pos]
IsIntText(t) ==
  LET d == AfterSign(t, 1) IN d <= Len(t) /\ DigitsEnd(t, d) = Len(t) + 1
IntOf(t) == ReadInt(t, [pos |-> 1, fail |-> FALSE]).val
IsFloatText(t) ==
  LET r == ReadFloat(t, [pos |-> 1, fail |-> FALSE])
  IN ~r.st.fail /\ r.st.pos = Len(t) + 1
FloatOf(t) == ReadFloat(t, [pos |-> 1, fail |-> FALSE]).val

\* C4: loadImagePFM is all-or-nothing.  It fails when the file cannot be
\* opened, the magic is neither "PF" nor "Pf", a header token does not parse,
\* the scale is >= 0, or fewer than H*W*C*4 body bytes follow the header; a
\* tensor it returns has every one of its H*W*C elements set from the file.
C4_AllOrNothing ==
  call.op = "loadImagePFM" =>
    IF disk[call.filename] = NoFile THEN ret.status = "runtime_error"
    ELSE LET t == HeaderTokens(disk[call.filename])
             C == Channels(t.magic)
             parsed == IsIntText(t.w) /\ IsIntText(t.h) /\ IsFloatText(t.scale)
             wellFormed ==
               /\ t.magic \in { S(<<"P", "F">>), S(<<"P", "f">>) }
               /\ parsed
               /\ ~FGeZero(FloatOf(t.scale))
               /\ t.body >= IntOf(t.h) * IntOf(t.w) * C * 4
         IN /\ ~wellFormed => ret.status # "ok"
            /\ ret.status = "ok" =>
                 /\ Len(ret.image.data) = IntOf(t.h) * IntOf(t.w) * C
                 /\ \A i \in 1..Len(ret.image.data) : ret.image.data[i].cls # "uninit"

\* C5: PFM rows are flipped.  On load the sample at disk position (h, w, c)
\* is stored at ((H-1-h)*W + w)*C + c multiplied by |scale|; on save the
\* sample at disk position (h, w, c) is the element ((H-1-h)*W + w)*3 + c,
\* unscaled.
C5_RowFlip ==
  /\ (IsLoad /\ ret.status = "ok") =>
       LET img == ret.image
           H == img.dims[1]
           W == img.dims[2]
           C == img.dims[3]
           b == disk[call.filename]
       IN \A h \in 0..(H - 1), w \in 0..(W - 1), c \in 0..(C - 1) :
            img.data[((H - 1 - h) * W + w) * C + c + 1]
              = FMul(BytesFloat(DiskSample(b, (h * W + w) * C + c)), FAbs(HeaderScale(b)))
  /\ (call.op = "saveImagePFM" /\ Complete) =>
       LET img == call.image
           H == img.dims[1]
           W == img.dims[2]
           b == disk[call.filename]
       IN \A h \in 0..(H - 1), w \in 0..(W - 1), c \in 0..2 :
            DiskSample(b, (h * W + w) * 3 + c)
              = FloatBytes(img.data[((H - 1 - h) * W + w) * 3 + c + 1])

C5_Witness ==
  /\ call.op = "loadImagePFM"
  /\ ret.status = "ok"
  /\ ret.image.dims = <<2, 2, 3>>
  /\ HeaderScale(disk[call.filename]) = Fin(-2, 0)
  /\ ret.image.data[1] = Fin(7, 0)

\* C6: every tensor a load returns has H > 0, W > 0, C in {1, 3} and H*W*C
\* elements; a tensor with a zero or negative dimension is never returned.
C6_ReturnedShape ==
  (IsLoad /\ ret.status = "ok") =>
    /\ Len(ret.image.dims) = 3
    /\ ret.image.dims[1] > 0
    /\ ret.image.dims[2] > 0
    /\ ret.image.dims[3] \in {1, 3}
    /\ Len(ret.image.data) = TensorSize(ret.image.dims)

FNegative(x) == x.cls \in {"fin", "inf"} /\ x.m < 0
FAtLeastOne(x) ==
  \/ x.cls = "inf" /\ x.m > 0
  \/ x.cls = "fin" /\ x.m > 0 /\ x.e + BitLen(x.m) - 1 >= 0

\* C7: every byte saveImagePPM emits for a sample is in [0, 255]; a sample
\* x < 0 is emitted as 0 and a sample x >= 1 (x = 1 included) as 255.
C7_ByteClamp ==
  (call.op = "saveImagePPM" /\ io.opened) =>
    LET b == disk[call.filename]
        start == AfterNewlines(b, 1, 3)
    IN \A k \in 0..(Len(b) - start) :
         LET x == call.image.data[k + 1]
             v == b[start + k]
         IN /\ v \in 0..255
            /\ FNegative(x) => v = 0
            /\ FAtLeastOne(x) => v = 255

\* The pixels of the rows lo..hi-1 whose luminance is above the threshold,
\* and the sum of their logarithms with their number.
Qualifying(img, lo, hi) ==
  { p \in (lo..(hi - 1)) \X (0..(img.width - 1)) :
      AboveEps(luminance(GetPixel(img, p[1], p[2]))) }
RECURSIVE LogSum(_, _)
LogSum(img, ps) ==
  IF ps = {} THEN 0
  ELSE LET p == CHOOSE q \in ps : TRUE
       IN Log2(luminance(GetPixel(img, p[1], p[2]))) + LogSum(img, ps \ {p})
SumOver(img, lo, hi) ==
  <<LogSum(img, Qualifying(img, lo, hi)), Cardinality(Qualifying(img, lo, hi))>>

\* C8: however parallel_reduce partitions the rows and merges the partial
\* sums, every row is reduced by exactly one body into that body's own
\* partial sum, and the merged pair is the sum of log2(L) and the number of
\* exactly the pixels with L > 1e-7; black, negative and tiny pixels are left
\* out of both.
C8_PartitionIndependence ==
  pc \in {"reduce", "done"} =>
    /\ \A h \in 0..(input.height - 1) : visits[h] <= 1
    /\ \A i \in 1..Len(tasks) :
         /\ tasks[i].sum = SumOver(input, tasks[i].lo, tasks[i].h)
         /\ \A h \in tasks[i].lo..(tasks[i].h - 1) : visits[h] = 1
    /\ pc = "done" =>
         /\ \A h \in 0..(input.height - 1) : visits[h] = 1
         /\ (IF tasks = <<>> THEN Zero ELSE tasks[1].sum)
              = SumOver(input, 0, input.height)

C8_Witness ==
  /\ pc = "done"
  /\ input.height >= 3
  /\ input.width = 2
  /\ Len(tasks) = 1
  /\ tasks[1].parts >= 2
  /\ tasks[1].sum[2] \in 1..(input.height * input.width - 1)

\* C9: autoexposure returns 1.0 when no pixel is above the threshold (also
\* for an empty or all-black image), otherwise 0.18 / 2^(sum / count); for a
\* non-empty image of uniform luminance 1.0 that is 0.18.
C9_Exposure ==
  pc = "done" =>
    LET total == SumOver(input, 0, input.height)
        avg == Exp2(total[1] \div total[2])
        uniform == \A p \in (0..(input.height - 1)) \X (0..(input.width - 1)) :
                     luminance(GetPixel(input, p[1], p[2])) = [n |-> 1000000, e |-> 0]
    IN /\ total[2] = 0 => result = One
       /\ total[2] > 0 => result = [q |-> (Key * FixOne) \div avg.q, k |-> -avg.k]
       /\ (total[2] > 0 /\ uniform) => result = [q |-> Key, k |-> 0]

C9_Witness ==
  /\ pc = "done"
  /\ input.height >= 2
  /\ input.width = 2
  /\ \A h \in 1..input.height : input.rows[h] = 3
  /\ result = [q |-> Key, k |-> 0]

\* C10: a save whose stream fails on a write does not return normally: the
\* failure reaches the caller as an exception.
C10_WriteFailureReported ==
  (IsSave /\ io.opened /\ io.done < io.total) => ret.status # "ok"

====
